---- MODULE Spec2Model ----
(***************************************************************************)
(* A model of data_tool.py: the record readers (read_csv, read_json), the  *)
(* two conversions (csv_to_json, json_to_csv), the schema validator        *)
(* (validate_schema, load_schema) and the command dispatch of main.        *)
(*                                                                         *)
(* Text is a sequence of one-character strings, so that parsing, sorting   *)
(* and formatting are computed character by character.  A Python value is  *)
(* a record [k |-> <type name>, v |-> <payload>].                          *)
(***************************************************************************)
EXTENDS Integers, Sequences, FiniteSets, TLC

VARIABLES pc, args, rows, ret, opened, attempts

vars == <<pc, args, rows, ret, opened, attempts>>

(***************************************************************************)
(* Bounds of the model.                                                    *)
(***************************************************************************)
\* longest source (data rows of a file, elements of a JSON array)
MaxRows == 2
\* largest row cap tried by the readers
MaxCap == 3

(***************************************************************************)
(* Text.                                                                   *)
(***************************************************************************)
DigitChars == <<"0", "1", "2", "3", "4", "5", "6", "7", "8", "9">>

Digits == {DigitChars[n] : n \in 1..10}

\* the code points of the characters that occur in field names
Code(c) ==
  CASE c = "B" -> 66
    [] c = "a" -> 97
    [] c = "b" -> 98
    [] c = "l" -> 108
    [] c = "n" -> 110
    [] c = "u" -> 117

\* s < t for Python str: by code point, a proper prefix first
RECURSIVE StrLess(_, _)
StrLess(s, t) ==
  IF t = <<>> THEN FALSE
  ELSE IF s = <<>> THEN TRUE
  ELSE IF Head(s) = Head(t) THEN StrLess(Tail(s), Tail(t))
  ELSE Code(Head(s)) < Code(Head(t))

\* str(n) for an int n >= 0
RECURSIVE IntText(_)
IntText(n) ==
  IF n < 10 THEN <<DigitChars[n + 1]>>
  ELSE IntText(n \div 10) \o <<DigitChars[(n % 10) + 1]>>

(***************************************************************************)
(* Python values.                                                          *)
(***************************************************************************)
PyStr(s) == [k |-> "str", v |-> s]
PyInt(n) == [k |-> "int", v |-> n]
\* a float w.f, kept as its whole part and the digits of its fraction
PyFloat(w, f) == [k |-> "float", v |-> <<w, f>>]
PyBool(b) == [k |-> "bool", v |-> b]
PyNone == [k |-> "NoneType", v |-> <<>>]
PyList(xs) == [k |-> "list", v |-> xs]
\* a dict keeps its items in insertion order: a sequence of <<key, value>>
PyDict(items) == [k |-> "dict", v |-> items]

IsDict(x) == x.k = "dict"
IsList(x) == x.k = "list"

Keys(d) == [n \in 1..Len(d.v) |-> d.v[n][1]]

HasKey(d, key) == \E n \in 1..Len(d.v) : d.v[n][1] = key

\* d.get(key, default)
Get(d, key, default) ==
  IF HasKey(d, key)
  THEN d.v[CHOOSE n \in 1..Len(d.v) : d.v[n][1] = key][2]
  ELSE default

\* str(v) of a scalar
PyText(v) ==
  CASE v.k = "str" -> v.v
    [] v.k = "int" -> IntText(v.v)
    [] v.k = "float" -> IntText(v.v[1]) \o <<".">> \o v.v[2]
    [] v.k = "bool" -> IF v.v THEN <<"T", "r", "u", "e">>
                       ELSE <<"F", "a", "l", "s", "e">>
    [] v.k = "NoneType" -> <<"N", "o", "n", "e">>

\* Python truthiness of max_rows (None or an int)
Truthy(x) == x # PyNone /\ x.v # 0

Ok(val) == [ok |-> TRUE, val |-> val]
\* a raised exception: its type and the parts of its message
Raise(exc, msg) == [ok |-> FALSE, exc |-> exc, msg |-> msg]

\* all sequences over S of length at most n
SeqUpTo(S, n) == UNION {[1..m -> S] : m \in 0..n}

\* all sequences over S of length exactly n
SeqOfLen(S, n) == [1..n -> S]

(***************************************************************************)
(* Files.  A file either does not exist or holds bytes, and the same bytes *)
(* are read in two ways: csv is what the csv module makes of them (a       *)
(* header and the following lines, each a sequence of cells, or an error)  *)
(* and json is what json.load makes of them (a value, or an error).        *)
(***************************************************************************)
CsvTable(header, lines) == [ok |-> TRUE, header |-> header, lines |-> lines]
CsvMalformed == [ok |-> FALSE]
JsonDoc(data) == [ok |-> TRUE, data |-> data]
JsonMalformed == [ok |-> FALSE]
File(csv, json) == [exists |-> TRUE, csv |-> csv, json |-> json]
NoFile == [exists |-> FALSE, csv |-> CsvMalformed, json |-> JsonMalformed]

\* csv.DictReader.__next__ for one non-blank line: the header's names are the
\* keys; a short line leaves the remaining keys at restval (None), a long
\* line puts the extra cells, as a list, under restkey (None)
DictReaderRow(header, line) ==
  LET n == Len(header)
      m == Len(line)
      named == [c \in 1..n |->
                 <<PyStr(header[c]), IF c <= m THEN PyStr(line[c]) ELSE PyNone>>]
      rest == PyList([c \in 1..(m - n) |-> PyStr(line[n + c])])
  IN  PyDict(IF m > n THEN Append(named, <<PyNone, rest>>) ELSE named)

NonBlank(line) == line # <<>>

\* csv.DictReader: one record per line after the header, blank lines skipped
DictReader(table) ==
  LET kept == SelectSeq(table.lines, NonBlank)
  IN  [n \in 1..Len(kept) |-> DictReaderRow(table.header, kept[n])]

\* the loop of read_csv: i is enumerate's index of Head(reader)
RECURSIVE ReadCsvLoop(_, _, _, _)
ReadCsvLoop(reader, max_rows, i, acc) ==
  IF reader = <<>> THEN acc
  ELSE LET appended == Append(acc, Head(reader))
       IN  IF Truthy(max_rows) /\ i + 1 >= max_rows.v
           THEN appended
           ELSE ReadCsvLoop(Tail(reader), max_rows, i + 1, appended)

read_csv(file, max_rows) ==
  IF ~file.exists THEN Raise("FileNotFoundError", <<"No such file or directory">>)
  ELSE IF ~file.csv.ok THEN Raise("csv.Error", <<"malformed delimited rows">>)
  ELSE Ok(ReadCsvLoop(DictReader(file.csv), max_rows, 0, <<>>))

\* data[:max_rows] for max_rows >= 0
Slice(data, n) == SubSeq(data, 1, IF n < Len(data) THEN n ELSE Len(data))

read_json(file, max_rows) ==
  IF ~file.exists THEN Raise("FileNotFoundError", <<"No such file or directory">>)
  ELSE IF ~file.json.ok THEN Raise("JSONDecodeError", <<"Expecting value">>)
  ELSE LET data == file.json.data
       IN  IF IsList(data)
           THEN Ok(IF Truthy(max_rows) THEN Slice(data.v, max_rows.v) ELSE data.v)
           ELSE IF IsDict(data) THEN Ok(<<data>>)
           ELSE Raise("ValueError",
                      <<"JSON root must be an object or an array of objects">>)

(***************************************************************************)
(* The inputs the readers are tried on.                                    *)
(***************************************************************************)
fB == <<"b">>
fAB == <<"a", "b">>
tEmpty == <<>>
tX == <<"x">>
t3 == <<"3">>
t314 == <<"3", ".", "1", "4">>

\* the lines of a one-column file: blank, one cell, one cell too many
ReadLines == {<<>>, <<tX>>, <<t3>>, <<tX, t3>>}

\* the elements of a JSON array: two records and a scalar
ReadItems == {PyDict(<<<<PyStr(fB), PyStr(tX)>>>>),
              PyDict(<<<<PyStr(fB), PyInt(3)>>>>),
              PyInt(5)}

\* what json.load makes of a file that holds no array
OtherDocs == {JsonDoc(PyDict(<<<<PyStr(fB), PyStr(tX)>>>>)), JsonDoc(PyInt(5)),
              JsonMalformed}

Caps == {PyNone} \cup {PyInt(n) : n \in 0..MaxCap}

NoRet == [ok |-> TRUE, val |-> <<>>]

InitRead ==
  /\ pc = "call"
  /\ \E cap \in Caps :
       \/ args = [path |-> NoFile, max_rows |-> cap]
       \/ \E j \in OtherDocs :
            args = [path |-> File(CsvMalformed, j), max_rows |-> cap]
       \/ \E m \in 0..MaxRows, n \in 0..MaxRows :
            \E lines \in SeqOfLen(ReadLines, m), xs \in SeqOfLen(ReadItems, n) :
              args = [path |-> File(CsvTable(<<fB>>, lines), JsonDoc(PyList(xs))),
                      max_rows |-> cap]
  /\ rows = <<>>
  /\ ret = NoRet
  /\ opened = <<>>
  /\ attempts = <<>>

\* rows = read_csv(path, max_rows)
CallReadCsv ==
  /\ pc = "call"
  /\ ret' = read_csv(args.path, args.max_rows)
  /\ rows' = IF ret'.ok THEN ret'.val ELSE rows
  /\ pc' = "read_csv"
  /\ UNCHANGED <<args, opened, attempts>>

\* rows = read_json(path, max_rows)
CallReadJson ==
  /\ pc = "call"
  /\ ret' = read_json(args.path, args.max_rows)
  /\ rows' = IF ret'.ok THEN ret'.val ELSE rows
  /\ pc' = "read_json"
  /\ UNCHANGED <<args, opened, attempts>>

NextRead == CallReadCsv \/ CallReadJson

SpecRead == InitRead /\ [][NextRead]_vars

Min(a, b) == IF a < b THEN a ELSE b

\* C1: with a cap N >= 0 (0 included) read_csv and read_json (array root)
\* return exactly the first min(N, totalRecords) records of the source, in
\* their order and unchanged.
CapInvariant ==
  /\ (pc = "read_csv" /\ args.path.exists /\ args.path.csv.ok
        /\ args.max_rows # PyNone)
     => LET source == DictReader(args.path.csv)
        IN  /\ ret.ok
            /\ ret.val = SubSeq(source, 1, Min(args.max_rows.v, Len(source)))
  /\ (pc = "read_json" /\ args.path.exists /\ args.path.json.ok
        /\ IsList(args.path.json.data) /\ args.max_rows # PyNone)
     => LET source == args.path.json.data.v
        IN  /\ ret.ok
            /\ ret.val = SubSeq(source, 1, Min(args.max_rows.v, Len(source)))

(***************************************************************************)
(* json_to_csv.                                                            *)
(***************************************************************************)
\* json.dumps(v, ensure_ascii=False); the texts dumped here need no escapes
RECURSIVE JsonText(_)
RECURSIVE JsonJoin(_, _)
JsonJoin(parts, n) ==
  IF n > Len(parts) THEN <<>>
  ELSE (IF n > 1 THEN <<",", " ">> ELSE <<>>) \o parts[n] \o JsonJoin(parts, n + 1)

JsonText(v) ==
  CASE v.k = "str" -> <<"\"">> \o v.v \o <<"\"">>
    [] v.k = "bool" -> IF v.v THEN <<"t", "r", "u", "e">>
                       ELSE <<"f", "a", "l", "s", "e">>
    [] v.k = "NoneType" -> <<"n", "u", "l", "l">>
    [] v.k = "list" ->
         <<"[">> \o JsonJoin([n \in 1..Len(v.v) |-> JsonText(v.v[n])], 1)
                 \o <<"]">>
    [] v.k = "dict" ->
         <<"{">> \o JsonJoin([n \in 1..Len(v.v) |->
                               JsonText(v.v[n][1]) \o <<":", " ">>
                                 \o JsonText(v.v[n][2])], 1)
                 \o <<"}">>
    [] OTHER -> PyText(v)

\* sorted(fields, reverse=True)
RECURSIVE SortedDescending(_)
SortedDescending(S) ==
  IF S = {} THEN <<>>
  ELSE LET m == CHOOSE x \in S : \A y \in S \ {x} : StrLess(y.v, x.v)
       IN  <<m>> \o SortedDescending(S \ {m})

\* sorted(fields) for a set of str
RECURSIVE Sorted(_)
Sorted(S) ==
  IF S = {} THEN <<>>
  ELSE LET m == CHOOSE x \in S : \A y \in S \ {x} : StrLess(x.v, y.v)
       IN  <<m>> \o Sorted(S \ {m})

\* the union of the keys of the dicts of data
UnionFields(data) ==
  UNION {{data[n].v[c][1] : c \in 1..Len(data[n].v)} :
           n \in {m \in 1..Len(data) : IsDict(data[m])}}

\* every value written by json.dumps, text included
CellTextDumped(v) == IF v.k = "NoneType" THEN <<>> ELSE JsonText(v)

\* what csv.writer writes for a cell: None as empty text, text as it is,
\* anything else by str()
CellText(v) ==
  CASE v.k = "NoneType" -> <<>>
    [] v.k = "str" -> v.v
    [] OTHER -> PyText(v)

\* the row dict json_to_csv builds for item, as DictWriter writes it
WriteRow(item, fields) ==
  [c \in 1..Len(fields) |->
     LET v == Get(item, fields[c], PyStr(<<>>))
     IN  CellText(IF v.k \in {"dict", "list"} THEN PyStr(JsonText(v)) ELSE v)]

Failed(exc, msg, written) ==
  [ok |-> FALSE, exc |-> exc, msg |-> msg, val |-> written]

\* for item in data, from element n on; written is the file so far
RECURSIVE WriteLoop(_, _, _, _)
WriteLoop(data, fields, n, written) ==
  IF n > Len(data) THEN Ok(written)
  ELSE IF fields # <<>> /\ ~IsDict(data[n])
  THEN Failed("AttributeError",
              <<"'", data[n].k, "' object has no attribute 'get'">>, written)
  ELSE WriteLoop(data, fields, n + 1,
                 [written EXCEPT !.lines = Append(@, WriteRow(data[n], fields))])

\* the table written to out_path, or the exception raised
json_to_csv(file) ==
  IF ~file.exists THEN Raise("FileNotFoundError", <<"No such file or directory">>)
  ELSE IF ~file.json.ok THEN Raise("JSONDecodeError", <<"Expecting value">>)
  ELSE LET loaded == file.json.data
           data == IF IsDict(loaded) THEN <<loaded>>
                   ELSE IF IsList(loaded) THEN loaded.v ELSE <<>>
           fields == Sorted(UnionFields(data))
           header == [c \in 1..Len(fields) |-> fields[c].v]
       IN  IF ~IsDict(loaded) /\ ~IsList(loaded)
           THEN Raise("ValueError",
                      <<"JSON must be an array of objects or a single object">>)
           ELSE WriteLoop(data, fields, 1, CsvTable(header, <<>>))

(***************************************************************************)
(* csv_to_json.                                                            *)
(***************************************************************************)
tNull == <<"n", "u", "l", "l">>

\* the document json.dump writes for v, as json.load reads it back: a dict
\* key that is None is written as the name "null"
RECURSIVE JsonDump(_)
JsonDump(v) ==
  CASE v.k = "list" -> PyList([n \in 1..Len(v.v) |-> JsonDump(v.v[n])])
    [] v.k = "dict" ->
         PyDict([n \in 1..Len(v.v) |->
                   <<IF v.v[n][1] = PyNone THEN PyStr(tNull) ELSE v.v[n][1],
                     JsonDump(v.v[n][2])>>])
    [] OTHER -> v

\* the document written to out_path, or the exception raised
csv_to_json(file) ==
  IF ~file.exists THEN Raise("FileNotFoundError", <<"No such file or directory">>)
  ELSE IF ~file.csv.ok THEN Raise("csv.Error", <<"malformed delimited rows">>)
  ELSE Ok(JsonDoc(JsonDump(PyList(DictReader(file.csv)))))

(***************************************************************************)
(* validate_schema.                                                        *)
(***************************************************************************)
RECURSIVE LStrip(_)
LStrip(s) == IF s # <<>> /\ Head(s) = " " THEN LStrip(Tail(s)) ELSE s

RECURSIVE RStrip(_)
RStrip(s) ==
  IF s # <<>> /\ s[Len(s)] = " " THEN RStrip(SubSeq(s, 1, Len(s) - 1)) ELSE s

Unsigned(s) == IF s # <<>> /\ Head(s) \in {"+", "-"} THEN Tail(s) ELSE s

\* the text int() parses: blanks stripped, a sign, then digits only
IsIntLiteral(s) ==
  LET body == Unsigned(RStrip(LStrip(s)))
  IN  body # <<>> /\ \A n \in 1..Len(body) : body[n] \in Digits

\* the text float() parses: blanks stripped, a sign, digits with at most one
\* point and at least one digit
IsFloatLiteral(s) ==
  LET body == Unsigned(RStrip(LStrip(s)))
      points == {n \in 1..Len(body) : body[n] = "."}
  IN  /\ \A n \in 1..Len(body) : body[n] \in Digits \cup {"."}
      /\ Cardinality(points) <= 1
      /\ \E n \in 1..Len(body) : body[n] \in Digits

\* int(val) returns: text is parsed, a number is converted (a float is
\* truncated), anything else is a TypeError
IntAccepts(val) ==
  CASE val.k = "str" -> IsIntLiteral(val.v)
    [] val.k \in {"int", "float", "bool"} -> TRUE
    [] OTHER -> FALSE

\* float(val) returns
FloatAccepts(val) ==
  CASE val.k = "str" -> IsFloatLiteral(val.v)
    [] val.k \in {"int", "float", "bool"} -> TRUE
    [] OTHER -> FALSE

MsgMissing(i, field) ==
  [fmt |-> "row {i+1}: missing {field}", row |-> i + 1, field |-> field]

MsgExpected(i, field, tname, val) ==
  [fmt |-> "row {i+1}: field {field} expected {tname}, got {val!r}",
   row |-> i + 1, field |-> field, tname |-> tname, val |-> val]

MsgUnknown(field, tname) ==
  [fmt |-> "unknown schema type for {field}: {tname}",
   field |-> field, tname |-> tname]

\* val is None or val == ""
IsMissingOnlyEmpty(val) == val = PyStr(<<>>)

IsMissing(val) == val = PyNone \/ val = PyStr(<<>>)

\* the body of the inner loop for one (field, tname) of the schema: the
\* messages it appends for record r, whose enumerate index is i
CheckField(i, r, field, tname) ==
  LET val == Get(r, field, PyNone)
  IN  IF IsMissing(val) THEN <<MsgMissing(i, field)>>
      ELSE IF tname = PyStr(<<"i", "n", "t">>)
      THEN IF IntAccepts(val) THEN <<>>
           ELSE <<MsgExpected(i, field, "int", val)>>
      ELSE IF tname = PyStr(<<"f", "l", "o", "a", "t">>)
      THEN IF FloatAccepts(val) THEN <<>>
           ELSE <<MsgExpected(i, field, "float", val)>>
      ELSE IF tname = PyStr(<<"s", "t", "r">>) THEN <<>>
      ELSE <<MsgUnknown(field, tname)>>

\* for field, tname in schema.items(), from item j on
RECURSIVE FieldLoop(_, _, _, _, _)
FieldLoop(i, r, schema, j, errors) ==
  IF j > Len(schema.v) THEN Ok(errors)
  ELSE IF ~IsDict(r)
  THEN Raise("AttributeError", <<"'", r.k, "' object has no attribute 'get'">>)
  ELSE FieldLoop(i, r, schema, j + 1,
                 errors \o CheckField(i, r, schema.v[j][1], schema.v[j][2]))

\* for i, r in enumerate(rows), from index i on
RECURSIVE RowLoop(_, _, _, _)
RowLoop(data, schema, i, errors) ==
  IF i >= Len(data) THEN Ok(errors)
  ELSE LET inner == FieldLoop(i, data[i + 1], schema, 1, errors)
       IN  IF inner.ok THEN RowLoop(data, schema, i + 1, inner.val)
           ELSE inner

validate_schema(data, schema) == RowLoop(data, schema, 0, <<>>)

(***************************************************************************)
(* The inputs the validator is tried on.                                   *)
(***************************************************************************)
Absent == [k |-> "absent", v |-> <<>>]

IsPresent(item) == item[2] # Absent

\* a record, in header order, of the fields whose value is not Absent
Record(vb, vab) ==
  PyDict(SelectSeq(<<<<PyStr(fB), vb>>, <<PyStr(fAB), vab>>>>, IsPresent))

ValuesB == {Absent, PyNone, PyStr(tEmpty), PyStr(t3), PyStr(t314), PyInt(0),
            PyFloat(3, <<"1", "4">>), PyList(<<>>)}

ValuesAB == {Absent, PyStr(tEmpty), PyStr(t3)}

ValidateRecords == {Record(vb, vab) : vb \in ValuesB, vab \in ValuesAB}

tInt == PyStr(<<"i", "n", "t">>)
tFloat == PyStr(<<"f", "l", "o", "a", "t">>)
tStr == PyStr(<<"s", "t", "r">>)
tInteger == PyStr(<<"i", "n", "t", "e", "g", "e", "r">>)

SchemaTags == {tInt, tFloat, tStr, tInteger}

\* the schemas over b and ab, in both iteration orders
Schemas ==
  {PyDict(<<>>)}
    \cup {PyDict(<<<<PyStr(f), t>>>>) : f \in {fB, fAB}, t \in SchemaTags}
    \cup {PyDict(<<<<PyStr(fB), t>>, <<PyStr(fAB), u>>>>) :
            t \in SchemaTags, u \in {tInt, tStr}}
    \cup {PyDict(<<<<PyStr(fAB), u>>, <<PyStr(fB), t>>>>) :
            t \in SchemaTags, u \in {tInt, tStr}}

InitValidate ==
  /\ pc = "call"
  /\ args \in [schema : Schemas]
  /\ \E n \in 0..MaxRows : rows \in SeqOfLen(ValidateRecords \cup {PyInt(5)}, n)
  /\ ret = NoRet
  /\ opened = <<>>
  /\ attempts = <<>>

\* errors = validate_schema(rows, schema)
CallValidateSchema ==
  /\ pc = "call"
  /\ ret' = validate_schema(rows, args.schema)
  /\ pc' = "validate_schema"
  /\ UNCHANGED <<args, rows, opened, attempts>>

NextValidate == CallValidateSchema

SpecValidate == InitValidate /\ [][NextValidate]_vars

(***************************************************************************)
(* The validator's claims.  They are about the returned list for a dataset *)
(* of records; i is the 1-indexed record, j the position of the field in   *)
(* the schema's iteration order.                                           *)
(***************************************************************************)
Validated == pc = "validate_schema" /\ \A n \in 1..Len(rows) : IsDict(rows[n])

Pairs == (1..Len(rows)) \X (1..Len(args.schema.v))

FieldAt(j) == args.schema.v[j][1]
TagAt(j) == args.schema.v[j][2]
ValueAt(i, j) == Get(rows[i], FieldAt(j), Absent)

Count(seq, x) == Cardinality({n \in 1..Len(seq) : seq[n] = x})

\* the messages that name row i and the field at j
About(seq, i, j) ==
  {n \in 1..Len(seq) : /\ "row" \in DOMAIN seq[n]
                       /\ seq[n].row = i
                       /\ seq[n].field = FieldAt(j)}

IsScalar(v) == v.k \in {"str", "int", "float", "bool", "NoneType"}

HasIntegerText(v) == IsScalar(v) /\ IsIntLiteral(PyText(v))
HasRealText(v) == IsScalar(v) /\ IsFloatLiteral(PyText(v))

\* a field that is there and is not empty text (nor null)
Filled(v) == v \notin {Absent, PyNone, PyStr(<<>>)}

\* the spec's type tags integer, real and text are the code's int, float, str
WrongTyped(v, tname) ==
  CASE tname = tInt -> ~HasIntegerText(v)
    [] tname = tFloat -> ~HasRealText(v)
    [] tname = tStr -> FALSE
    [] OTHER -> TRUE

Offending == {p \in Pairs : \/ ~Filled(ValueAt(p[1], p[2]))
                            \/ WrongTyped(ValueAt(p[1], p[2]), TagAt(p[2]))}

Before(p, q) == p[1] < q[1] \/ (p[1] = q[1] /\ p[2] < q[2])

Concerns(msg, p) ==
  /\ msg.field = FieldAt(p[2])
  /\ "row" \in DOMAIN msg => msg.row = p[1]

\* C2: validate_schema never throws on records and returns exactly one
\* message per (record, schema field) pair that is missing or wrong-typed,
\* none for any other pair, in ascending (record, schema position) order.
ValidatorTotality ==
  Validated =>
    /\ ret.ok
    /\ Len(ret.val) = Cardinality(Offending)
    /\ \A p \in Offending :
         LET n == 1 + Cardinality({q \in Offending : Before(q, p)})
         IN  n <= Len(ret.val) /\ Concerns(ret.val[n], p)

\* what C3 says of every pair, for a given notion of a missing value
MissingExactly(IsGone(_)) ==
  Validated =>
    /\ ret.ok
    /\ \A p \in Pairs :
         LET v == ValueAt(p[1], p[2])
             said == MsgMissing(p[1] - 1, FieldAt(p[2]))
         IN  /\ Count(ret.val, said) = (IF IsGone(v) THEN 1 ELSE 0)
             /\ IsGone(v) =>
                  \A n \in About(ret.val, p[1], p[2]) : ret.val[n] = said
    /\ \A j \in 1..Len(args.schema.v) :
         Count(ret.val, MsgUnknown(FieldAt(j), TagAt(j)))
           <= Cardinality({i \in 1..Len(rows) : ~IsGone(ValueAt(i, j))})

AbsentOrEmpty(v) == v \in {Absent, PyStr(<<>>)}
AbsentNullOrEmpty(v) == v \in {Absent, PyNone, PyStr(<<>>)}

\* C3 as stated: "row {i}: missing {f}" is emitted if and only if f is absent
\* or present with empty text; no other present value is reported missing,
\* and a missing field produces no further message for the pair.
MissingIffAbsentOrEmpty == MissingExactly(AbsentOrEmpty)

\* C3 (amended): "row {i}: missing {f}" is emitted if and only if f is
\* absent, present with null, or present with empty text; no other present
\* value is reported missing, and a missing field produces no further message.
MissingIffAbsentNullOrEmpty == MissingExactly(AbsentNullOrEmpty)

\* a null field reported missing next to a present non-text field that is not
NullReportedMissing ==
  /\ Validated
  /\ ret.ok
  /\ \E p \in Pairs :
       /\ ValueAt(p[1], p[2]) = PyNone
       /\ Count(ret.val, MsgMissing(p[1] - 1, FieldAt(p[2]))) = 1
  /\ \E p \in Pairs :
       /\ ValueAt(p[1], p[2]).k \in {"float", "list"}
       /\ Count(ret.val, MsgMissing(p[1] - 1, FieldAt(p[2]))) = 0

\* C4: for a present, non-empty field: under integer, one "expected int"
\* error for the row and field when the value's text is not an integer and
\* none when it is; under real, no error for real-number text; under text,
\* no error; under an unrecognized tag, one "unknown schema type" message
\* per record having the field.
TypeCheckByTag ==
  Validated =>
    /\ ret.ok
    /\ \A p \in Pairs :
         LET v == ValueAt(p[1], p[2])
             t == TagAt(p[2])
             f == FieldAt(p[2])
             about == About(ret.val, p[1], p[2])
         IN  Filled(v) =>
               /\ t = tInt =>
                    IF HasIntegerText(v) THEN about = {}
                    ELSE /\ Cardinality(about) = 1
                         /\ \A n \in about :
                              ret.val[n] = MsgExpected(p[1] - 1, f, "int", v)
               /\ (t = tFloat /\ HasRealText(v)) => about = {}
               /\ t = tStr => about = {}
    /\ \A j \in 1..Len(args.schema.v) :
         TagAt(j) \notin {tInt, tFloat, tStr} =>
           Count(ret.val, MsgUnknown(FieldAt(j), TagAt(j)))
             = Cardinality({i \in 1..Len(rows) : Filled(ValueAt(i, j))})

(***************************************************************************)
(* The inputs json_to_csv is tried on.                                     *)
(***************************************************************************)
NestedDict == PyDict(<<<<PyStr(<<"z">>), PyInt(2)>>>>)
NestedList == PyList(<<PyInt(2), PyStr(tX)>>)

FlattenValues ==
  {PyStr(tX), PyNone, PyInt(1), PyBool(TRUE), NestedDict, NestedList}

FlattenValuesAB == {PyStr(tX), PyNone, NestedList}

\* the dicts over b and ab, in both insertion orders
FlattenRecords ==
  {PyDict(<<>>)}
    \cup {PyDict(<<<<PyStr(fB), v>>>>) : v \in FlattenValues}
    \cup {PyDict(<<<<PyStr(fAB), w>>>>) : w \in FlattenValuesAB}
    \cup {PyDict(<<<<PyStr(fB), v>>, <<PyStr(fAB), w>>>>) :
            v \in FlattenValues, w \in FlattenValuesAB}
    \cup {PyDict(<<<<PyStr(fAB), w>>, <<PyStr(fB), v>>>>) :
            v \in FlattenValues, w \in FlattenValuesAB}

\* the documents that hold no array
FlattenOtherDocs ==
  {JsonDoc(d) : d \in FlattenRecords} \cup {JsonDoc(PyInt(5)), JsonMalformed}

InitFlatten ==
  /\ pc = "call"
  /\ \/ args = [json_path |-> NoFile]
     \/ \E j \in FlattenOtherDocs : args = [json_path |-> File(CsvMalformed, j)]
     \/ \E n \in 0..MaxRows :
          \E xs \in SeqOfLen(FlattenRecords \cup {PyInt(5)}, n) :
            args = [json_path |-> File(CsvMalformed, JsonDoc(PyList(xs)))]
  /\ rows = <<>>
  /\ ret = NoRet
  /\ opened = <<>>
  /\ attempts = <<>>

\* json_to_csv(json_path, out_path)
CallJsonToCsv ==
  /\ pc = "call"
  /\ ret' = json_to_csv(args.json_path)
  /\ pc' = "json_to_csv"
  /\ UNCHANGED <<args, rows, opened, attempts>>

NextFlatten == CallJsonToCsv

SpecFlatten == InitFlatten /\ [][NextFlatten]_vars

\* the dataset of the document: a single record is a one-record dataset
Dataset(file) ==
  IF IsDict(file.json.data) THEN <<file.json.data>> ELSE file.json.data.v

HasDataset(file) ==
  file.exists /\ file.json.ok /\ file.json.data.k \in {"dict", "list"}

AllRecords(data) == \A n \in 1..Len(data) : IsDict(data[n])

\* the cell the claim asks for, for each value of FlattenValues
ExpectedCell(v) ==
  CASE v = Absent -> <<>>
    [] v = PyNone -> <<>>
    [] v = PyStr(tX) -> <<"x">>
    [] v = PyInt(1) -> <<"1">>
    [] v = PyBool(TRUE) -> <<"T", "r", "u", "e">>
    [] v = NestedDict -> <<"{", "\"", "z", "\"", ":", " ", "2", "}">>
    [] v = NestedList -> <<"[", "2", ",", " ", "\"", "x", "\"", "]">>

\* C5: on a dataset of records json_to_csv writes as header the ascending
\* sorted union of all field names, then one row per record in dataset order
\* with one cell per header field: empty text for an absent or null field,
\* the re-serialized text for a sub-mapping or sequence, else the scalar's text.
FlattenHeaderAndCells ==
  (pc = "json_to_csv" /\ HasDataset(args.json_path)
     /\ AllRecords(Dataset(args.json_path)))
  => LET data == Dataset(args.json_path)
         header == ret.val.header
         lines == ret.val.lines
     IN  /\ ret.ok
         /\ \A c \in 1..(Len(header) - 1) : StrLess(header[c], header[c + 1])
         /\ {PyStr(header[c]) : c \in 1..Len(header)} = UnionFields(data)
         /\ Len(lines) = Len(data)
         /\ \A n \in 1..Len(data) :
              /\ Len(lines[n]) = Len(header)
              /\ \A c \in 1..Len(header) :
                   lines[n][c] =
                     ExpectedCell(Get(data[n], PyStr(header[c]), Absent))

\* two records whose fields arrive in descending order, one cell nested, one
\* null and one absent
FlattenedOutOfOrder ==
  /\ pc = "json_to_csv"
  /\ ret.ok
  /\ HasDataset(args.json_path)
  /\ LET data == Dataset(args.json_path)
     IN  /\ Len(data) = 2
         /\ AllRecords(data)
         /\ Keys(data[1]) = <<PyStr(fB), PyStr(fAB)>>
         /\ Get(data[1], PyStr(fB), Absent) = NestedDict
         /\ Get(data[1], PyStr(fAB), Absent) = PyNone
         /\ Keys(data[2]) = <<PyStr(fB)>>
  /\ ret.val.header = <<fAB, fB>>

\* the exception's message names index n, counted from 0 or from 1
NamesIndex(msg, n) ==
  \E c \in 1..Len(msg) : msg[c] \in {DigitChars[n], DigitChars[n + 1]}

\* C6: when an element of the dataset is not a record, the conversion fails
\* with a ShapeError naming the index of that element, wherever it stands.
NonRecordIsShapeError ==
  (pc = "json_to_csv" /\ HasDataset(args.json_path))
  => \A n \in 1..Len(Dataset(args.json_path)) :
       ( /\ ~IsDict(Dataset(args.json_path)[n])
         /\ AllRecords(SubSeq(Dataset(args.json_path), 1, n - 1)) )
       => /\ ~ret.ok
          /\ ret.exc = "ShapeError"
          /\ NamesIndex(ret.msg, n)

(***************************************************************************)
(* The round trip: csv_to_json, then json_to_csv on the document written.  *)
(***************************************************************************)
Cells == {tEmpty, tX, t3}

Headers == {<<fB>>, <<fAB>>, <<fB, fAB>>, <<fAB, fB>>}

InitRoundTrip ==
  /\ pc = "call"
  /\ \/ args \in [csv_path : {NoFile, File(CsvMalformed, JsonMalformed)}]
     \/ \E h \in Headers, n \in 0..MaxRows :
          \* each line has up to one cell more than the header
          \E lines \in SeqOfLen(SeqUpTo(Cells, Len(h) + 1), n) :
            args = [csv_path |-> File(CsvTable(h, lines), JsonMalformed)]
  /\ rows = <<>>
  /\ ret = NoRet
  /\ opened = <<>>
  /\ attempts = <<>>

\* csv_to_json(csv_path, out_path)
CallCsvToJson ==
  /\ pc = "call"
  /\ ret' = csv_to_json(args.csv_path)
  /\ rows' = IF ret'.ok THEN ret'.val.data.v ELSE rows
  /\ pc' = "csv_to_json"
  /\ UNCHANGED <<args, opened, attempts>>

\* json_to_csv on the file csv_to_json wrote
CallJsonToCsvBack ==
  /\ pc = "csv_to_json"
  /\ ret.ok
  /\ ret' = json_to_csv(File(CsvMalformed, ret.val))
  /\ pc' = "round_trip"
  /\ UNCHANGED <<args, rows, opened, attempts>>

NextRoundTrip == CallCsvToJson \/ CallJsonToCsvBack

SpecRoundTrip == InitRoundTrip /\ [][NextRoundTrip]_vars

\* the data rows of D: its lines that are not blank
DataRows == SelectSeq(args.csv_path.csv.lines, NonBlank)

Range(seq) == {seq[n] : n \in 1..Len(seq)}

Position(seq, x) == CHOOSE n \in 1..Len(seq) : seq[n] = x

\* the rows come back in number and order, each originally-present cell with
\* its value under its field
SameRowsAndCells ==
  LET D == args.csv_path.csv
  IN  /\ ret.ok
      /\ Len(ret.val.lines) = Len(DataRows)
      /\ \A n \in 1..Len(DataRows) :
           \A c \in 1..Min(Len(D.header), Len(DataRows[n])) :
             /\ D.header[c] \in Range(ret.val.header)
             /\ ret.val.lines[n][Position(ret.val.header, D.header[c])]
                  = DataRows[n][c]

SummaryMaxRows == 20
\* show of summarize_rows
SummaryShow == 5

\* summarize_rows(rows, show): the columns printed, or the exception raised
summarize_rows(data, show) ==
  IF data = <<>> THEN Ok(<<>>)
  ELSE IF ~IsDict(data[1])
  THEN Raise("AttributeError", <<"'", data[1].k, "' object has no attribute 'keys'">>)
  ELSE LET columns == Keys(data[1])
           shown == SubSeq(data, 1, Min(show, Len(data)))
           bad == {n \in 1..Len(shown) : ~IsDict(shown[n])}
       IN  IF columns # <<>> /\ bad # {}
           THEN Raise("AttributeError",
                      <<"'", shown[CHOOSE n \in bad : \A m \in bad : n <= m].k,
                        "' object has no attribute 'get'">>)
           ELSE Ok(columns)

load_schema(file) ==
  IF ~file.exists THEN Raise("FileNotFoundError", <<"No such file or directory">>)
  ELSE IF ~file.json.ok THEN Raise("JSONDecodeError", <<"Expecting value">>)
  ELSE IF ~IsDict(file.json.data)
  THEN Raise("ValueError", <<"Schema must be a JSON object mapping field -> type">>)
  ELSE Ok(file.json.data)

\* path.open(...) twice over
OpenTwice(log, name, mode, file) ==
  IF file.exists THEN log \o <<<<name, mode>>, <<name, mode>>>> ELSE log

\* path.open(...): the file is opened when it exists
Open(log, name, mode, file) ==
  IF file.exists THEN Append(log, <<name, mode>>) ELSE log

\* the exception main reports when the first reader raised
FirstError(first, second) == first

\* try: read_json ... except Exception: read_csv: the exception of read_json
\* is dropped, the one of read_csv propagates
DetectError(first, second) == second

\* main returns code; err is the exception printed, errors the validator's list
Exit(code, err, errors) ==
  [ok |-> code = 0, code |-> code, err |-> err, errors |-> errors]

NoError == [ok |-> TRUE]

MainTables == {CsvTable(<<fB>>, <<>>),
               CsvTable(<<fB>>, <<<<t3>>>>),
               CsvTable(<<fB>>, <<<<tX>>, <<t3>>>>)}

MainDocs == {JsonDoc(PyInt(5)),
             JsonDoc(PyList(<<>>)),
             JsonDoc(PyDict(<<<<PyStr(fB), PyInt(3)>>>>)),
             JsonDoc(PyList(<<PyDict(<<<<PyStr(fB), PyStr(tX)>>>>)>>)),
             JsonDoc(PyList(<<PyDict(<<<<PyStr(fB), PyStr(t3)>>>>), PyInt(5)>>))}

MainFiles ==
  {NoFile} \cup {File(c, j) : c \in MainTables \cup {CsvMalformed},
                              j \in MainDocs \cup {JsonMalformed}}

SchemaFiles ==
  {NoFile} \cup {File(CsvMalformed, j) :
                   j \in {JsonMalformed,
                          JsonDoc(PyList(<<>>)),
                          JsonDoc(PyDict(<<>>)),
                          JsonDoc(PyDict(<<<<PyStr(fB), tInt>>>>)),
                          JsonDoc(PyDict(<<<<PyStr(fB), tStr>>>>))}}

Suffixes == {".csv", ".json", ".txt"}

InitMain ==
  /\ pc = "main"
  /\ args \in [cmd : {"summary"}, path : MainFiles, suffix : Suffixes,
               schema : {NoFile}]
         \cup [cmd : {"validate"}, path : MainFiles, suffix : Suffixes,
               schema : SchemaFiles]
         \cup [cmd : {"convert-to-json"}, path : MainFiles, suffix : {".csv"},
               schema : {NoFile}]
         \cup [cmd : {"convert-to-csv"}, path : MainFiles, suffix : {".json"},
               schema : {NoFile}]
  /\ rows = <<>>
  /\ ret = NoRet
  /\ opened = <<>>
  /\ attempts = <<>>

\* the cap each subcommand reads with
MaxRowsOf(cmd) == IF cmd = "summary" THEN PyInt(SummaryMaxRows) ELSE PyNone

\* summary: if not p.exists(): return 2
SummaryNotFound ==
  /\ pc = "main"
  /\ args.cmd = "summary"
  /\ ~args.path.exists
  /\ pc' = "exit"
  /\ ret' = Exit(2, NoError, <<>>)
  /\ UNCHANGED <<args, rows, opened, attempts>>

\* summary and validate on a .csv or .json path: the reader of the suffix
ReadBySuffix ==
  /\ pc = "main"
  /\ args.cmd \in {"summary", "validate"}
  /\ args.cmd = "summary" => args.path.exists
  /\ args.suffix \in {".csv", ".json"}
  /\ LET r == IF args.suffix = ".csv"
              THEN read_csv(args.path, MaxRowsOf(args.cmd))
              ELSE read_json(args.path, MaxRowsOf(args.cmd))
     IN  /\ opened' = Open(opened, "path", "r", args.path)
         /\ IF r.ok
            THEN pc' = "rows" /\ rows' = r.val /\ ret' = ret
            ELSE pc' = "exit" /\ rows' = rows /\ ret' = Exit(1, r, <<>>)
  /\ UNCHANGED <<args, attempts>>

\* any other suffix: try read_json first
TryReadJson ==
  /\ pc = "main"
  /\ args.cmd \in {"summary", "validate"}
  /\ args.cmd = "summary" => args.path.exists
  /\ args.suffix \notin {".csv", ".json"}
  /\ LET r == read_json(args.path, MaxRowsOf(args.cmd))
     IN  /\ opened' = Open(opened, "path", "r", args.path)
         /\ attempts' = Append(attempts, [reader |-> "read_json", result |-> r])
         /\ IF r.ok
            THEN pc' = "rows" /\ rows' = r.val
            ELSE pc' = "except" /\ rows' = rows
  /\ UNCHANGED <<args, ret>>

\* except Exception: read_csv
FallbackReadCsv ==
  /\ pc = "except"
  /\ LET r == read_csv(args.path, MaxRowsOf(args.cmd))
     IN  /\ opened' = Open(opened, "path", "r", args.path)
         /\ attempts' = Append(attempts, [reader |-> "read_csv", result |-> r])
         /\ IF r.ok
            THEN pc' = "rows" /\ rows' = r.val /\ ret' = ret
            ELSE /\ pc' = "exit"
                 /\ rows' = rows
                 /\ ret' = Exit(1, DetectError(attempts[1].result, r), <<>>)
  /\ UNCHANGED args

\* summarize_rows(rows, show=5); return 0
Summarize ==
  /\ pc = "rows"
  /\ args.cmd = "summary"
  /\ LET r == summarize_rows(rows, SummaryShow)
     IN  ret' = IF r.ok THEN Exit(0, NoError, <<>>) ELSE Exit(1, r, <<>>)
  /\ pc' = "exit"
  /\ UNCHANGED <<args, rows, opened, attempts>>

\* schema = load_schema(...); errors = validate_schema(rows, schema)
Validate ==
  /\ pc = "rows"
  /\ args.cmd = "validate"
  /\ opened' = Open(opened, "schema", "r", args.schema)
  /\ LET schema == load_schema(args.schema)
         errors == validate_schema(rows, schema.val)
     IN  ret' = IF ~schema.ok THEN Exit(1, schema, <<>>)
                ELSE IF ~errors.ok THEN Exit(1, errors, <<>>)
                ELSE IF errors.val = <<>> THEN Exit(0, NoError, <<>>)
                ELSE Exit(3, NoError, errors.val)
  /\ pc' = "exit"
  /\ UNCHANGED <<args, rows, attempts>>

\* csv_to_json(args.csv_path, args.output); return 0
ConvertToJson ==
  /\ pc = "main"
  /\ args.cmd = "convert-to-json"
  /\ LET r == csv_to_json(args.path)
         read == Open(opened, "path", "r", args.path)
     IN  /\ opened' = IF r.ok THEN Append(read, <<"output", "w">>) ELSE read
         /\ ret' = IF r.ok THEN Exit(0, NoError, <<>>) ELSE Exit(1, r, <<>>)
  /\ pc' = "exit"
  /\ UNCHANGED <<args, rows, attempts>>

\* json_to_csv(args.json_path, args.output); return 0
ConvertToCsv ==
  /\ pc = "main"
  /\ args.cmd = "convert-to-csv"
  /\ LET r == json_to_csv(args.path)
         read == Open(opened, "path", "r", args.path)
     IN  /\ opened' = IF r.ok \/ r.exc = "AttributeError"
                      THEN Append(read, <<"output", "w">>) ELSE read
         /\ ret' = IF r.ok THEN Exit(0, NoError, <<>>) ELSE Exit(1, r, <<>>)
  /\ pc' = "exit"
  /\ UNCHANGED <<args, rows, attempts>>

NextMain ==
  \/ SummaryNotFound
  \/ ReadBySuffix
  \/ TryReadJson
  \/ FallbackReadCsv
  \/ Summarize
  \/ Validate
  \/ ConvertToJson
  \/ ConvertToCsv

SpecMain == InitMain /\ [][NextMain]_vars

(***************************************************************************)
(* The claims about main.                                                  *)
(***************************************************************************)
Detecting ==
  args.cmd \in {"summary", "validate"} /\ args.suffix \notin {".csv", ".json"}

\* C8: for a path that is neither .csv nor .json, in summary and validate,
\* read_json is attempted first and read_csv only after read_json failed;
\* the first successful attempt's dataset is the result; when both fail the
\* caller sees read_csv's error, never read_json's.
DetectionOrder ==
  /\ ~Detecting => attempts = <<>>
  /\ Len(attempts) <= 2
  /\ Len(attempts) >= 1 => attempts[1].reader = "read_json"
  /\ Len(attempts) = 2 =>
       /\ attempts[2].reader = "read_csv"
       /\ ~attempts[1].result.ok
  /\ (Detecting /\ pc = "rows") =>
       /\ attempts # <<>>
       /\ attempts[Len(attempts)].result.ok
       /\ rows = attempts[Len(attempts)].result.val
  /\ (Detecting /\ pc = "exit" /\ Len(attempts) = 2
        /\ ~attempts[2].result.ok) =>
       /\ ret.code = 1
       /\ ret.err = attempts[2].result
       /\ attempts[1].result # attempts[2].result
            => ret.err # attempts[1].result

\* both attempts failed, each with its own error, and read_csv's is reported
BothAttemptsFailed ==
  /\ Detecting
  /\ pc = "exit"
  /\ Len(attempts) = 2
  /\ attempts[1].result.exc = "ValueError"
  /\ attempts[2].result.exc = "csv.Error"
  /\ ret.code = 1
  /\ ret.err.exc = "csv.Error"

\* C9: validate returns 0 if and only if the error list is empty, 3 if a
\* validation error was found, 2 if the data path does not exist and 1 on
\* every other failure; a missing data path is never reported as 1.
ValidateExitStatus ==
  (args.cmd = "validate" /\ pc = "exit") =>
    /\ ret.code \in {0, 1, 2, 3}
    /\ ret.code = 2 <=> ~args.path.exists
    /\ ret.code = 3 <=> ret.errors # <<>>
    /\ ret.code = 0 <=> (ret.err = NoError /\ ret.errors = <<>>
                           /\ args.path.exists)
    /\ ret.code = 1 <=> (ret.err # NoError /\ args.path.exists)

Opens(mode) == Cardinality({n \in 1..Len(opened) : opened[n][2] = mode})

OpensOf(name) == Cardinality({n \in 1..Len(opened) : opened[n][1] = name})

\* C10 as stated: in every invocation, on every path, files are opened for
\* reading at most once and for writing at most once.
OneReadOneWrite == Opens("r") <= 1 /\ Opens("w") <= 1

\* C10 (amended): files are opened for writing at most once and for reading
\* at most three times: the data file at most twice (once per attempt of the
\* auto-detection) and the schema file at most once.
ThreeReadsOneWrite ==
  /\ Opens("w") <= 1
  /\ Opens("r") <= 3
  /\ OpensOf("path") <= 2
  /\ OpensOf("schema") <= 1

\* validate with auto-detection: the data file read twice, then the schema
ValidateOpensThree ==
  /\ pc = "exit"
  /\ args.cmd = "validate"
  /\ opened = <<<<"path", "r">>, <<"path", "r">>, <<"schema", "r">>>>

====
